---- MODULE Spec2Model ----
(***************************************************************************)
(* AnimatedGridBackground (src/src/components/AnimatedGridBackground.jsx). *)
(*                                                                         *)
(* The component keeps two grids of cell descriptors (squares,             *)
(* backgroundSquares) and two sets of lit ids (activeSquares,              *)
(* activeBackgroundSquares).  A layout effect builds the grids; one effect *)
(* per layer owns a repeating timer whose callback performs an activation  *)
(* round and schedules a one-shot deactivation callback.                   *)
(*                                                                         *)
(* Time is abstracted per layer into periods of one interval: a timer      *)
(* created in a period is "armed" and becomes "due" when the period        *)
(* elapses; due timers of one layer fire in any order the event loop       *)
(* allows before the next period elapses.  Every Math.random() call is an  *)
(* input of the step that makes it.                                        *)
(***************************************************************************)
EXTENDS Integers, Sequences, FiniteSets, TLC

VARIABLES
    props,                    \* the props of the current render
    mounted,                  \* FALSE once the component is torn down
    squares,                  \* useState: foreground cell descriptors
    activeSquares,            \* useState: foreground active-id set
    backgroundSquares,        \* useState: background cell descriptors
    activeBackgroundSquares,  \* useState: background active-id set
    fgInterval,               \* foreground setInterval: "none" | "armed" | "due"
    fgClosure,                \* values captured by the foreground interval callback
    fgDirty,                  \* deps of the foreground effect changed, effect not yet re-run
    fgTimeouts,               \* pending foreground setTimeout callbacks, in creation order
    bgInterval,
    bgClosure,
    bgDirty,
    bgTimeouts,
    lateUpdates,              \* state setter calls made after teardown
    lifecycle,                \* the last of "mount", "regenerate", "unmount", "remount"
    removedOld,               \* history: the ids the step just taken, if a deactivation
                              \* step, removed although its round had found them active
    layoutEffect              \* the layout effect while it runs: its position and its
                              \* local curvedIndices; "done" and {} once it has returned

vars == <<props, mounted, squares, activeSquares, backgroundSquares,
          activeBackgroundSquares, fgInterval, fgClosure, fgDirty, fgTimeouts,
          bgInterval, bgClosure, bgDirty, bgTimeouts, lateUpdates, lifecycle,
          removedOld, layoutEffect>>

fgVars == <<activeSquares, fgInterval, fgClosure, fgDirty, fgTimeouts>>
bgVars == <<activeBackgroundSquares, bgInterval, bgClosure, bgDirty, bgTimeouts>>

(***************************************************************************)
(* Bounds of the exploration.                                              *)
(***************************************************************************)
\* longest run of the curved-index sampling loop that is explored
MaxDraws == 4

Min(a, b) == IF a <= b THEN a ELSE b
Max(a, b) == IF a >= b THEN a ELSE b

(***************************************************************************)
(* Randomness and the palette.                                             *)
(***************************************************************************)
DEFAULT_COLORS ==
    << "from-blue-500/80 to-blue-600/80",
       "from-cyan-500/80 to-cyan-600/80",
       "from-slate-400/80 to-slate-500/80",
       "from-blue-400/80 to-cyan-500/80",
       "from-cyan-400/80 to-blue-500/80" >>

\* the outcomes of Math.floor(Math.random() * n)
RandomIndex(n) == 0 .. (n - 1)

\* getRandomFrom(arr) with k the outcome of Math.floor(Math.random() * arr.length)
getRandomFrom(arr, k) == arr[k + 1]

\* the colour draws explored: the first and the last palette entry
ColorIndex == {k \in RandomIndex(Len(DEFAULT_COLORS)) : k = 0 \/ k = Len(DEFAULT_COLORS) - 1}

(***************************************************************************)
(* Layout generation.                                                      *)
(***************************************************************************)
FgId(row, col) == "fg-" \o ToString(row) \o "-" \o ToString(col)

\* mutant: the row is written where the column belongs
BgId_RowTwice(row, col) == "bg-" \o ToString(row) \o "-" \o ToString(row)

BgId(row, col) == "bg-" \o ToString(row) \o "-" \o ToString(col)

\* mutant: Math.ceil in place of Math.floor
CurvedCount_RoundUp(totalSquares, curvedPercentage) ==
    (totalSquares * curvedPercentage + 99) \div 100

\* Math.floor((totalSquares * curvedPercentage) / 100)
CurvedCount(totalSquares, curvedPercentage) ==
    (totalSquares * curvedPercentage) \div 100

\* the while loop that fills curvedIndices, run on the sequence of draws it is given
RECURSIVE SampleCurved(_, _, _)
SampleCurved(curvedIndices, curvedCount, draws) ==
    IF Cardinality(curvedIndices) < curvedCount /\ draws # <<>>
    THEN SampleCurved(curvedIndices \cup {Head(draws)}, curvedCount, Tail(draws))
    ELSE curvedIndices

\* the draw sequences on which the loop makes exactly Len(draws) draws and exits
LoopDraws(totalSquares, curvedCount) ==
    {d \in UNION {[1 .. n -> RandomIndex(totalSquares)] : n \in 0 .. MaxDraws} :
        /\ Cardinality(SampleCurved({}, curvedCount, d)) >= curvedCount
        /\ d # <<>> =>
             Cardinality(SampleCurved({}, curvedCount, SubSeq(d, 1, Len(d) - 1)))
                 < curvedCount}

\* mutant: the id is made from a random draw instead of the column
InitialSquares_RandomId(rows, cols, curvedIndices, colorDraw) ==
    [i \in 1 .. (Max(rows, 0) * Max(cols, 0)) |->
        LET index == i - 1
            row == index \div cols
            col == index % cols
        IN  [id |-> FgId(row, colorDraw[i]),
             row |-> row,
             col |-> col,
             isCurved |-> index \in curvedIndices,
             color |-> getRandomFrom(DEFAULT_COLORS, colorDraw[i])]]

\* the nested for loops that push the foreground cells, row-major, index++ per cell
InitialSquares(rows, cols, curvedIndices, colorDraw) ==
    [i \in 1 .. (Max(rows, 0) * Max(cols, 0)) |->
        LET index == i - 1
            row == index \div cols
            col == index % cols
        IN  [id |-> FgId(row, col),
             row |-> row,
             col |-> col,
             isCurved |-> index \in curvedIndices,
             color |-> getRandomFrom(DEFAULT_COLORS, colorDraw[i])]]

InitialBackgroundSquares(backgroundRows, backgroundCols, colorDraw) ==
    [i \in 1 .. (Max(backgroundRows, 0) * Max(backgroundCols, 0)) |->
        LET row == (i - 1) \div backgroundCols
            col == (i - 1) % backgroundCols
        IN  [id |-> BgId(row, col),
             row |-> row,
             col |-> col,
             color |-> getRandomFrom(DEFAULT_COLORS, colorDraw[i])]]

\* every result of the layout effect for one set of props
Layouts(p) ==
    LET totalSquares == p.rows * p.cols
        curvedCount == CurvedCount(totalSquares, p.curvedPercentage)
        bgTotal == Max(p.backgroundRows, 0) * Max(p.backgroundCols, 0)
    IN  {[squares |-> InitialSquares(p.rows, p.cols,
                          SampleCurved({}, curvedCount, d), fc),
          backgroundSquares |->
              InitialBackgroundSquares(p.backgroundRows, p.backgroundCols, bc)] :
            d \in LoopDraws(totalSquares, curvedCount),
            fc \in [1 .. Max(totalSquares, 0) -> ColorIndex],
            bc \in [1 .. bgTotal -> ColorIndex]}

\* the props the layout effect depends on
Dims(p) ==
    [rows |-> p.rows, cols |-> p.cols, curvedPercentage |-> p.curvedPercentage,
     backgroundRows |-> p.backgroundRows, backgroundCols |-> p.backgroundCols]

(***************************************************************************)
(* The props explored.                                                     *)
(***************************************************************************)
\* g is <<rows, cols, curvedPercentage, backgroundRows, backgroundCols>>
Props(g, maxActiveSquares, maxBackgroundActive) ==
    [rows |-> g[1], cols |-> g[2], curvedPercentage |-> g[3],
     backgroundRows |-> g[4], backgroundCols |-> g[5],
     maxActiveSquares |-> maxActiveSquares,
     maxBackgroundActive |-> maxBackgroundActive]

\* the grids of the animation runs, in families: a prop change moves between
\* the grids of one family.  At most two cells per layer; a layer has cells in
\* every grid of its family or in none.
AnimFamilies ==
    { { <<1, 2, 100, 0, 0>> },
      { <<1, 2, 50, 0, 0>>, <<1, 1, 0, 0, 0>> },
      { <<0, 0, 0, 1, 2>>, <<0, 0, 0, 1, 1>> },
      { <<1, 1, 0, 1, 1>>, <<1, 1, 100, 1, 1>> } }

\* the caps explored with a grid: 0 and 1 for a layer that has cells
AnimCaps(g) ==
    {c \in {0, 1} \X {0, 1} :
        /\ g[1] * g[2] = 0 => c[1] = 1
        /\ g[4] * g[5] = 0 => c[2] = 1
        /\ g[1] * g[2] # 0 /\ g[4] * g[5] # 0 => c[1] = c[2]}

AnimConfigs ==
    UNION {{Props(g, c[1], c[2]) : c \in AnimCaps(g)} :
             g \in UNION AnimFamilies}

\* grids of the layout runs, with the caps left at their defaults
LayoutGrids ==
    { <<2, 2, 0, 1, 1>>, <<2, 2, 50, 0, 2>>, <<1, 3, 50, 0, 0>>,
      <<2, 1, 75, 1, 1>>, <<0, 2, 100, 2, 2>>, <<1, 1, 100, 1, 0>> }

LayoutConfigs ==
    {Props(g, 8, 3) : g \in LayoutGrids}

\* grids of the round runs, one layer each and the caps at their defaults: four
\* regular cells, two curved cells, three background cells
RoundGrids ==
    { <<2, 2, 0, 0, 0>>, <<1, 2, 100, 0, 0>>, <<0, 0, 0, 1, 3>> }

RoundConfigs ==
    {Props(g, 8, 3) : g \in RoundGrids}

Grid(p) == <<p.rows, p.cols, p.curvedPercentage, p.backgroundRows, p.backgroundCols>>

\* the prop changes explored: between the grids of a family, or between any two
\* grids of the layout runs; the caps stay as they are
PropChange(p, q) ==
    /\ Dims(p) # Dims(q)
    /\ p.maxActiveSquares = q.maxActiveSquares
    /\ p.maxBackgroundActive = q.maxBackgroundActive
    /\ \/ \E f \in AnimFamilies : Grid(p) \in f /\ Grid(q) \in f
       \/ Grid(p) \in LayoutGrids /\ Grid(q) \in LayoutGrids

\* the layouts of every explored configuration, by the props the effect depends on
LayoutTable ==
    [d \in {Dims(p) : p \in AnimConfigs \cup LayoutConfigs \cup RoundConfigs} |->
        Layouts(CHOOSE p \in AnimConfigs \cup LayoutConfigs \cup RoundConfigs :
                    Dims(p) = d)]

(***************************************************************************)
(* Activation rounds and deactivation steps.                               *)
(***************************************************************************)
\* arr.splice(k, 1): arr without its element at 0-based index k
Splice(arr, k) == SubSeq(arr, 1, k) \o SubSeq(arr, k + 2, Len(arr))

\* the id sets a loop of n iterations can add, each iteration splicing one
\* random element out of pool (an iteration on an empty pool adds nothing)
RECURSIVE ActivateFrom(_, _)
ActivateFrom(pool, n) ==
    IF n <= 0 \/ Len(pool) = 0
    THEN {{}}
    ELSE UNION {{{pool[k + 1].id} \cup s : s \in ActivateFrom(Splice(pool, k), n - 1)} :
                   k \in RandomIndex(Len(pool))}

\* mutant: the random count is taken without the budget
FgNumToActivate_NoBudget(r, maxActiveSquares, size) == r + 1

\* Math.min(Math.floor(Math.random() * 3) + 1, maxActiveSquares - activeSquares.size)
FgNumToActivate(r, maxActiveSquares, size) == Min(r + 1, maxActiveSquares - size)

\* mutant: the random count is taken without the cap
BgNumToActivate_NoCap(r, maxBackgroundActive, size) == r + 1

\* Math.min(Math.floor(Math.random() * 2) + 1, maxBackgroundActive - activeBackgroundSquares.size)
BgNumToActivate(r, maxBackgroundActive, size) == Min(r + 1, maxBackgroundActive - size)

\* the regular cells a foreground round adds
FgRegularPicks(inactiveRegular, r, maxActiveSquares, size) ==
    IF Len(inactiveRegular) > 0
    THEN ActivateFrom(inactiveRegular, FgNumToActivate(r, maxActiveSquares, size))
    ELSE {{}}

\* mutant: every inactive curved cell is lit
FgCurvedPicks_All(inactiveCurved, coin) ==
    IF Len(inactiveCurved) > 0 /\ coin
    THEN {{inactiveCurved[i].id : i \in 1 .. Len(inactiveCurved)}}
    ELSE {{}}

\* the curved cell a foreground round adds; coin is Math.random() < 0.3
FgCurvedPicks(inactiveCurved, coin) ==
    IF Len(inactiveCurved) > 0 /\ coin
    THEN {{inactiveCurved[k + 1].id} : k \in RandomIndex(Len(inactiveCurved))}
    ELSE {{}}

\* mutant: updated is copied from newActiveIds instead of prev
Deactivate_FromRound(prev, newActiveIds, keep) ==
    newActiveIds \ {id \in newActiveIds : id \notin prev \/ id \notin keep}

\* the updater of the deferred callback: keep holds the ids of newActiveIds
\* for which prev.has(id) and Math.random() > 0.3 is false
Deactivate(prev, newActiveIds, keep) ==
    prev \ {id \in newActiveIds : id \notin prev \/ id \notin keep}

\* a pending setTimeout: newActiveIds is what its callback captured; snapshot
\* records the active-id set its round started from
Timeout(newActiveIds, snapshot) ==
    [newActiveIds |-> newActiveIds, snapshot |-> snapshot, due |-> FALSE]

\* the ids of a grid's cells
IdSet(cells) == {cells[i].id : i \in 1 .. Len(cells)}

Inactive(cells, active) == SelectSeq(cells, LAMBDA sq : sq.id \notin active)

(***************************************************************************)
(* Initial state: mounted, layout generated, both effects run once.        *)
(***************************************************************************)
Mounted(p, layout) ==
    /\ props = p
    /\ mounted = TRUE
    /\ squares = layout.squares
    /\ backgroundSquares = layout.backgroundSquares
    /\ activeSquares = {}
    /\ activeBackgroundSquares = {}
    /\ fgInterval = "armed"
    /\ fgClosure = [squares |-> layout.squares, activeSquares |-> {}]
    /\ fgDirty = FALSE
    /\ fgTimeouts = <<>>
    /\ bgInterval = "armed"
    /\ bgClosure = [backgroundSquares |-> layout.backgroundSquares,
                    activeBackgroundSquares |-> {}]
    /\ bgDirty = FALSE
    /\ bgTimeouts = <<>>
    /\ lateUpdates = 0
    /\ lifecycle = "mount"
    /\ removedOld = {}
    /\ layoutEffect = [pc |-> "done", curvedIndices |-> {}]

Init == \E p \in AnimConfigs : \E layout \in LayoutTable[Dims(p)] : Mounted(p, layout)

(***************************************************************************)
(* Foreground layer.                                                       *)
(***************************************************************************)
\* mutant: the round is committed with the background layer's setter
FgTick_SetsBackground ==
    /\ UNCHANGED layoutEffect
    /\ mounted
    /\ fgInterval = "due"
    /\ LET act == fgClosure.activeSquares
           inactiveSquares == Inactive(fgClosure.squares, act)
           inactiveCurved == SelectSeq(inactiveSquares, LAMBDA sq : sq.isCurved)
           inactiveRegular == SelectSeq(inactiveSquares, LAMBDA sq : ~sq.isCurved)
       IN  \E r \in RandomIndex(3), coin \in BOOLEAN :
             \E reg \in FgRegularPicks(inactiveRegular, r, props.maxActiveSquares,
                                       Cardinality(act)) :
               \E cur \in FgCurvedPicks(inactiveCurved, coin) :
                 LET newActiveIds == act \cup reg \cup cur
                 IN  /\ activeBackgroundSquares' = newActiveIds
                     /\ fgTimeouts' = Append(fgTimeouts, Timeout(newActiveIds, act))
    /\ fgInterval' = "armed"
    /\ bgDirty' = TRUE
    /\ removedOld' = {}
    /\ UNCHANGED <<props, mounted, squares, backgroundSquares, activeSquares,
                   fgClosure, fgDirty, bgInterval, bgClosure, bgTimeouts,
                   lateUpdates, lifecycle>>

\* the setInterval callback (lines 84-125)
FgTick ==
    /\ UNCHANGED layoutEffect
    /\ mounted
    /\ fgInterval = "due"
    /\ LET act == fgClosure.activeSquares
           inactiveSquares == Inactive(fgClosure.squares, act)
           inactiveCurved == SelectSeq(inactiveSquares, LAMBDA sq : sq.isCurved)
           inactiveRegular == SelectSeq(inactiveSquares, LAMBDA sq : ~sq.isCurved)
       IN  \E r \in RandomIndex(3), coin \in BOOLEAN :
             \E reg \in FgRegularPicks(inactiveRegular, r, props.maxActiveSquares,
                                       Cardinality(act)) :
               \E cur \in FgCurvedPicks(inactiveCurved, coin) :
                 LET newActiveIds == act \cup reg \cup cur
                 IN  /\ activeSquares' = newActiveIds
                     /\ fgTimeouts' = Append(fgTimeouts, Timeout(newActiveIds, act))
    /\ fgInterval' = "armed"
    /\ fgDirty' = TRUE
    /\ removedOld' = {}
    /\ UNCHANGED <<props, mounted, squares, backgroundSquares, fgClosure, bgVars,
                   lateUpdates, lifecycle>>

\* the setTimeout callback (lines 116-124); after teardown the setter call
\* reaches no state
FgDeactivate ==
    /\ UNCHANGED layoutEffect
    /\ fgTimeouts # <<>>
    /\ Head(fgTimeouts).due
    /\ fgTimeouts' = Tail(fgTimeouts)
    /\ IF mounted
       THEN /\ \E keep \in SUBSET (Head(fgTimeouts).newActiveIds \cap activeSquares) :
                 activeSquares' =
                     Deactivate(activeSquares, Head(fgTimeouts).newActiveIds, keep)
            /\ removedOld' = (activeSquares \ activeSquares') \cap Head(fgTimeouts).snapshot
            /\ fgDirty' = TRUE
            /\ UNCHANGED lateUpdates
       ELSE /\ lateUpdates' = lateUpdates + 1
            /\ removedOld' = {}
            /\ UNCHANGED <<activeSquares, fgDirty>>
    /\ UNCHANGED <<props, mounted, squares, backgroundSquares, fgInterval, fgClosure,
                   bgVars, lifecycle>>

\* mutant: the cleanup clears the interval and no new one is set
FgEffect_NoInterval ==
    /\ UNCHANGED layoutEffect
    /\ mounted
    /\ fgDirty
    /\ fgInterval' = "none"
    /\ fgClosure' = [squares |-> squares, activeSquares |-> activeSquares]
    /\ fgDirty' = FALSE
    /\ removedOld' = {}
    /\ UNCHANGED <<props, mounted, squares, backgroundSquares, activeSquares,
                   fgTimeouts, bgVars, lateUpdates, lifecycle>>

\* the effect re-runs after a render that changed its deps: cleanup
\* (clearInterval), then a new setInterval whose callback captures this render
FgEffect ==
    /\ UNCHANGED layoutEffect
    /\ mounted
    /\ fgDirty
    /\ fgInterval' = "armed"
    /\ fgClosure' = [squares |-> squares, activeSquares |-> activeSquares]
    /\ fgDirty' = FALSE
    /\ removedOld' = {}
    /\ UNCHANGED <<props, mounted, squares, backgroundSquares, activeSquares,
                   fgTimeouts, bgVars, lateUpdates, lifecycle>>

\* one animationInterval elapses: every foreground timer becomes due
FgElapse ==
    /\ UNCHANGED layoutEffect
    /\ ~fgDirty
    /\ fgInterval # "due"
    /\ \A i \in 1 .. Len(fgTimeouts) : ~fgTimeouts[i].due
    /\ fgInterval = "armed" \/ fgTimeouts # <<>>
    /\ fgInterval' = IF fgInterval = "armed" THEN "due" ELSE fgInterval
    /\ fgTimeouts' = [i \in 1 .. Len(fgTimeouts) |-> [fgTimeouts[i] EXCEPT !.due = TRUE]]
    /\ removedOld' = {}
    /\ UNCHANGED <<props, mounted, squares, backgroundSquares, activeSquares,
                   fgClosure, fgDirty, bgVars, lateUpdates, lifecycle>>

(***************************************************************************)
(* Background layer.                                                       *)
(***************************************************************************)
\* the cells a background round adds, given a non-empty inactive pool
BgPicks(inactive, r, maxBackgroundActive, size) ==
    ActivateFrom(inactive, BgNumToActivate(r, maxBackgroundActive, size))

\* mutant: the callback has no early return
BgTick_NoEarlyReturn ==
    /\ UNCHANGED layoutEffect
    /\ mounted
    /\ bgInterval = "due"
    /\ LET act == bgClosure.activeBackgroundSquares
           inactive == Inactive(bgClosure.backgroundSquares, act)
       IN  \E r \in RandomIndex(2) :
             \E picked \in BgPicks(inactive, r, props.maxBackgroundActive,
                                   Cardinality(act)) :
               LET newActiveIds == act \cup picked
               IN  /\ activeBackgroundSquares' = newActiveIds
                   /\ bgTimeouts' = Append(bgTimeouts, Timeout(newActiveIds, act))
                   /\ bgDirty' = TRUE
    /\ bgInterval' = "armed"
    /\ removedOld' = {}
    /\ UNCHANGED <<props, mounted, squares, backgroundSquares, bgClosure, fgVars,
                   lateUpdates, lifecycle>>

\* the setInterval callback (lines 132-160); it returns early on an empty pool
BgTick ==
    /\ UNCHANGED layoutEffect
    /\ mounted
    /\ bgInterval = "due"
    /\ LET act == bgClosure.activeBackgroundSquares
           inactive == Inactive(bgClosure.backgroundSquares, act)
       IN  IF Len(inactive) = 0
           THEN UNCHANGED <<activeBackgroundSquares, bgTimeouts, bgDirty>>
           ELSE \E r \in RandomIndex(2) :
                  \E picked \in BgPicks(inactive, r, props.maxBackgroundActive,
                                        Cardinality(act)) :
                    LET newActiveIds == act \cup picked
                    IN  /\ activeBackgroundSquares' = newActiveIds
                        /\ bgTimeouts' = Append(bgTimeouts, Timeout(newActiveIds, act))
                        /\ bgDirty' = TRUE
    /\ bgInterval' = "armed"
    /\ removedOld' = {}
    /\ UNCHANGED <<props, mounted, squares, backgroundSquares, bgClosure, fgVars,
                   lateUpdates, lifecycle>>

\* the setTimeout callback (lines 151-159)
BgDeactivate ==
    /\ UNCHANGED layoutEffect
    /\ bgTimeouts # <<>>
    /\ Head(bgTimeouts).due
    /\ bgTimeouts' = Tail(bgTimeouts)
    /\ IF mounted
       THEN /\ \E keep \in SUBSET (Head(bgTimeouts).newActiveIds
                                       \cap activeBackgroundSquares) :
                 activeBackgroundSquares' =
                     Deactivate(activeBackgroundSquares,
                                Head(bgTimeouts).newActiveIds, keep)
            /\ removedOld' = (activeBackgroundSquares \ activeBackgroundSquares')
                                 \cap Head(bgTimeouts).snapshot
            /\ bgDirty' = TRUE
            /\ UNCHANGED lateUpdates
       ELSE /\ lateUpdates' = lateUpdates + 1
            /\ removedOld' = {}
            /\ UNCHANGED <<activeBackgroundSquares, bgDirty>>
    /\ UNCHANGED <<props, mounted, squares, backgroundSquares, bgInterval, bgClosure,
                   fgVars, lifecycle>>

BgEffect ==
    /\ UNCHANGED layoutEffect
    /\ mounted
    /\ bgDirty
    /\ bgInterval' = "armed"
    /\ bgClosure' = [backgroundSquares |-> backgroundSquares,
                     activeBackgroundSquares |-> activeBackgroundSquares]
    /\ bgDirty' = FALSE
    /\ removedOld' = {}
    /\ UNCHANGED <<props, mounted, squares, backgroundSquares,
                   activeBackgroundSquares, bgTimeouts, fgVars, lateUpdates, lifecycle>>

\* one backgroundInterval elapses: every background timer becomes due
BgElapse ==
    /\ UNCHANGED layoutEffect
    /\ ~bgDirty
    /\ bgInterval # "due"
    /\ \A i \in 1 .. Len(bgTimeouts) : ~bgTimeouts[i].due
    /\ bgInterval = "armed" \/ bgTimeouts # <<>>
    /\ bgInterval' = IF bgInterval = "armed" THEN "due" ELSE bgInterval
    /\ bgTimeouts' = [i \in 1 .. Len(bgTimeouts) |-> [bgTimeouts[i] EXCEPT !.due = TRUE]]
    /\ removedOld' = {}
    /\ UNCHANGED <<props, mounted, squares, backgroundSquares,
                   activeBackgroundSquares, bgClosure, bgDirty, fgVars,
                   lateUpdates, lifecycle>>

(***************************************************************************)
(* Prop changes, teardown, remount.                                        *)
(***************************************************************************)
\* the parent re-renders with other grid props: the layout effect (lines 43-80)
\* runs again and sets both grids; the active-id sets are not touched
Regenerate ==
    /\ UNCHANGED layoutEffect
    /\ mounted
    /\ \E p \in AnimConfigs \cup LayoutConfigs :
         /\ PropChange(props, p)
         /\ props' = p
         /\ \E layout \in LayoutTable[Dims(p)] :
              /\ squares' = layout.squares
              /\ backgroundSquares' = layout.backgroundSquares
    /\ fgDirty' = TRUE
    /\ bgDirty' = TRUE
    /\ lifecycle' = "regenerate"
    /\ removedOld' = {}
    /\ UNCHANGED <<mounted, activeSquares, activeBackgroundSquares, fgInterval,
                   fgClosure, fgTimeouts, bgInterval, bgClosure, bgTimeouts,
                   lateUpdates>>

\* teardown: the two effect cleanups (lines 127 and 162) clear the intervals
Unmount ==
    /\ UNCHANGED layoutEffect
    /\ mounted
    /\ mounted' = FALSE
    /\ fgInterval' = "none"
    /\ bgInterval' = "none"
    /\ fgDirty' = FALSE
    /\ bgDirty' = FALSE
    /\ lifecycle' = "unmount"
    /\ removedOld' = {}
    /\ UNCHANGED <<props, squares, backgroundSquares, activeSquares,
                   activeBackgroundSquares, fgClosure, bgClosure, fgTimeouts,
                   bgTimeouts, lateUpdates>>

\* a new instance is mounted with the same props after a teardown: fresh
\* useState values, then the layout effect and both animation effects
Remount ==
    /\ UNCHANGED layoutEffect
    /\ ~mounted
    /\ fgTimeouts = <<>>
    /\ bgTimeouts = <<>>
    /\ \E layout \in LayoutTable[Dims(props)] :
         /\ squares' = layout.squares
         /\ backgroundSquares' = layout.backgroundSquares
         /\ fgClosure' = [squares |-> layout.squares, activeSquares |-> {}]
         /\ bgClosure' = [backgroundSquares |-> layout.backgroundSquares,
                          activeBackgroundSquares |-> {}]
    /\ mounted' = TRUE
    /\ activeSquares' = {}
    /\ activeBackgroundSquares' = {}
    /\ fgInterval' = "armed"
    /\ bgInterval' = "armed"
    /\ fgDirty' = FALSE
    /\ bgDirty' = FALSE
    /\ lateUpdates' = 0
    /\ lifecycle' = "remount"
    /\ removedOld' = {}
    /\ UNCHANGED <<props, fgTimeouts, bgTimeouts>>

(***************************************************************************)
(* The layout effect, one loop iteration at a time.                        *)
(***************************************************************************)
\* mutant: the loop tests <= where the code tests <
SamplingContinues_OffByOne(indices, curvedCount) ==
    Cardinality(indices) <= curvedCount

\* the condition of the while loop (line 47)
SamplingContinues(indices, curvedCount) ==
    Cardinality(indices) < curvedCount

\* the first render: useState initial values, no timer yet, the layout effect
\* about to enter its loop with an empty curvedIndices
LayoutEffectStarts(p) ==
    /\ props = p
    /\ mounted = TRUE
    /\ squares = <<>>
    /\ backgroundSquares = <<>>
    /\ activeSquares = {}
    /\ activeBackgroundSquares = {}
    /\ fgInterval = "none"
    /\ fgClosure = [squares |-> <<>>, activeSquares |-> {}]
    /\ fgDirty = FALSE
    /\ fgTimeouts = <<>>
    /\ bgInterval = "none"
    /\ bgClosure = [backgroundSquares |-> <<>>, activeBackgroundSquares |-> {}]
    /\ bgDirty = FALSE
    /\ bgTimeouts = <<>>
    /\ lateUpdates = 0
    /\ lifecycle = "mount"
    /\ removedOld = {}
    /\ layoutEffect = [pc |-> "sample", curvedIndices |-> {}]

\* one iteration of the while loop (lines 47-49): a draw that is already in
\* the set leaves it as it is
SampleCurvedIndex ==
    /\ layoutEffect.pc = "sample"
    /\ LET totalSquares == props.rows * props.cols
           curvedCount == CurvedCount(totalSquares, props.curvedPercentage)
       IN  /\ SamplingContinues(layoutEffect.curvedIndices, curvedCount)
           /\ \E k \in RandomIndex(totalSquares) :
                layoutEffect' =
                    [layoutEffect EXCEPT !.curvedIndices = @ \cup {k}]
    /\ UNCHANGED <<props, mounted, squares, backgroundSquares, fgVars, bgVars,
                   lateUpdates, lifecycle, removedOld>>

\* the loop has exited: both grids are built and set (lines 52-79), and the
\* animation effects run on the render that shows them
BuildLayout ==
    /\ layoutEffect.pc = "sample"
    /\ LET totalSquares == props.rows * props.cols
           bgTotal == Max(props.backgroundRows, 0) * Max(props.backgroundCols, 0)
           curvedCount == CurvedCount(totalSquares, props.curvedPercentage)
       IN  /\ ~SamplingContinues(layoutEffect.curvedIndices, curvedCount)
           /\ \E fc \in [1 .. Max(totalSquares, 0) -> ColorIndex],
                 bc \in [1 .. bgTotal -> ColorIndex] :
                LET initialSquares ==
                        InitialSquares(props.rows, props.cols,
                                       layoutEffect.curvedIndices, fc)
                    initialBackgroundSquares ==
                        InitialBackgroundSquares(props.backgroundRows,
                                                 props.backgroundCols, bc)
                IN  /\ squares' = initialSquares
                    /\ backgroundSquares' = initialBackgroundSquares
                    /\ fgClosure' = [squares |-> initialSquares, activeSquares |-> {}]
                    /\ bgClosure' = [backgroundSquares |-> initialBackgroundSquares,
                                     activeBackgroundSquares |-> {}]
    /\ fgInterval' = "armed"
    /\ bgInterval' = "armed"
    /\ layoutEffect' = [pc |-> "done", curvedIndices |-> {}]
    /\ UNCHANGED <<props, mounted, activeSquares, activeBackgroundSquares, fgDirty,
                   fgTimeouts, bgDirty, bgTimeouts, lateUpdates, lifecycle,
                   removedOld>>

(***************************************************************************)
(* Specifications.                                                         *)
(***************************************************************************)
Next ==
    \/ FgTick
    \/ FgDeactivate
    \/ FgEffect
    \/ FgElapse
    \/ BgTick
    \/ BgDeactivate
    \/ BgEffect
    \/ BgElapse
    \/ Regenerate
    \/ Unmount

\* the animation: timers, prop changes, teardown
Spec == Init /\ [][Next]_vars

InitLayout ==
    \E p \in LayoutConfigs : \E layout \in LayoutTable[Dims(p)] : Mounted(p, layout)

NextLayout ==
    \/ Regenerate
    \/ Unmount
    \/ Remount

\* layout generation alone: mounts, prop changes, remounts, no timer fires
SpecLayout == InitLayout /\ [][NextLayout]_vars

NextLive ==
    \/ FgTick
    \/ FgDeactivate
    \/ FgEffect
    \/ FgElapse
    \/ BgTick
    \/ BgDeactivate
    \/ BgEffect
    \/ BgElapse

\* the event loop runs a timer callback that is due, React runs an effect whose
\* deps changed, and time passes
Fairness ==
    /\ WF_vars(FgTick)
    /\ WF_vars(FgDeactivate)
    /\ WF_vars(FgEffect)
    /\ WF_vars(FgElapse)
    /\ WF_vars(BgTick)
    /\ WF_vars(BgDeactivate)
    /\ WF_vars(BgEffect)
    /\ WF_vars(BgElapse)

\* the component stays mounted and its props stay as they are
SpecLive == Init /\ [][NextLive]_vars /\ Fairness

\* a deferred callback runs and, for id, Math.random() > 0.3 comes out true
FgRemoves(id) ==
    FgDeactivate /\ id \in activeSquares /\ id \notin activeSquares'

BgRemoves(id) ==
    BgDeactivate /\ id \in activeBackgroundSquares /\ id \notin activeBackgroundSquares'

\* the ids of the cells of the animation runs
CellIds ==
    UNION {IdSet(l.squares) \cup IdSet(l.backgroundSquares) :
             l \in UNION {LayoutTable[Dims(p)] : p \in AnimConfigs}}

\* as SpecLive, and the removal outcome of the deferred callback (probability
\* 0.7 per id and callback) is not avoided for ever
SpecLiveRemoval ==
    /\ SpecLive
    /\ \A id \in CellIds : SF_vars(FgRemoves(id)) /\ SF_vars(BgRemoves(id))

InitRounds ==
    \E p \in RoundConfigs : \E layout \in LayoutTable[Dims(p)] : Mounted(p, layout)

\* the animation with the default caps on grids large enough for a round to
\* draw its largest counts; props stay as they are
SpecRounds == InitRounds /\ [][NextLive]_vars

\* the props of the loop runs: those of the layout runs, and one grid whose
\* curvedPercentage asks for more curved cells than the grid has
LoopConfigs ==
    LayoutConfigs \cup {Props(<<1, 2, 150, 0, 0>>, 8, 3)}

InitLayoutLoop == \E p \in LoopConfigs : LayoutEffectStarts(p)

NextLayoutLoop ==
    \/ SampleCurvedIndex
    \/ BuildLayout

\* the mount, with the sampling loop run one iteration per step; a draw that
\* would add an index is not put off for ever
SpecLayoutLoop ==
    InitLayoutLoop /\ [][NextLayoutLoop]_vars
        /\ WF_vars(SampleCurvedIndex) /\ WF_vars(BuildLayout)

(***************************************************************************)
(* Properties.                                                             *)
(***************************************************************************)
DistinctIds(cells) ==
    \A i, j \in 1 .. Len(cells) : i # j => cells[i].id # cells[j].id

\* C1: with maxBackgroundActive >= 0 fixed, the background active-id set never
\* holds more than maxBackgroundActive ids, whatever the order in which
\* background ticks and deferred deactivation steps fire.
C1_BackgroundHardCap ==
    props.maxBackgroundActive >= 0 =>
        Cardinality(activeBackgroundSquares) <= props.maxBackgroundActive

\* a round has filled the cap while a further background cell is inactive
C1_Witness ==
    /\ mounted
    /\ props.maxBackgroundActive = 1
    /\ Len(backgroundSquares) = 2
    /\ Cardinality(activeBackgroundSquares) = 1
    /\ bgTimeouts # <<>>
    /\ bgTimeouts[Len(bgTimeouts)].newActiveIds = activeBackgroundSquares
    /\ bgTimeouts[Len(bgTimeouts)].snapshot = {}

\* C2: the foreground active-id set never holds more than maxActiveSquares + 1
\* ids, the curved-cell path exceeding the cap by at most one.
C2_ForegroundSoftCap ==
    Cardinality(activeSquares) <= props.maxActiveSquares + 1

\* C3: the regular cells a foreground round adds number at most
\* max(0, maxActiveSquares - |snapshot|), so they never take a snapshot of at
\* most maxActiveSquares ids above maxActiveSquares, and with
\* maxActiveSquares = 0 no round adds a regular cell.  (A foreground round is
\* the step that schedules a foreground deactivation callback.)
C3_RegularBudget ==
    [][Len(fgTimeouts') > Len(fgTimeouts) =>
        LET round == fgTimeouts'[Len(fgTimeouts')]
            regular ==
                {id \in round.newActiveIds \ round.snapshot :
                    \E i \in 1 .. Len(fgClosure.squares) :
                        /\ fgClosure.squares[i].id = id
                        /\ ~fgClosure.squares[i].isCurved}
        IN  /\ Cardinality(regular) <=
                 Max(0, props.maxActiveSquares - Cardinality(round.snapshot))
            /\ Cardinality(round.snapshot) <= props.maxActiveSquares =>
                 Cardinality(round.snapshot \cup regular) <= props.maxActiveSquares
            /\ props.maxActiveSquares = 0 => regular = {}]_vars

\* with maxActiveSquares = 0 and a regular cell inactive, a round has activated
\* the curved cell and no regular cell
C3_Witness ==
    /\ props.maxActiveSquares = 0
    /\ \E i \in 1 .. Len(squares) : ~squares[i].isCurved
    /\ \E i \in 1 .. Len(squares) :
         /\ squares[i].isCurved
         /\ fgTimeouts # <<>>
         /\ fgTimeouts[Len(fgTimeouts)].snapshot = {}
         /\ fgTimeouts[Len(fgTimeouts)].newActiveIds = {squares[i].id}
         /\ fgClosure.squares = squares

\* C4: once the component is torn down, no step updates or attempts to update
\* an active-id set: the deferred callbacks pending at teardown never fire.
C4_Teardown == ~mounted => lateUpdates = 0

\* C5: right after every layout generation (the mount and every regeneration
\* on a prop change) both active-id sets are empty.
C5_EmptyAtLayoutCreation ==
    [][lifecycle' \in {"regenerate", "remount"} =>
          activeSquares' = {} /\ activeBackgroundSquares' = {}]_vars

\* C6: the foreground layout has rows*cols cells with pairwise distinct ids,
\* floor(rows*cols*curvedPercentage/100) of them Rounded.
C6_ForegroundLayout ==
    /\ Len(squares) = props.rows * props.cols
    /\ DistinctIds(squares)
    /\ Cardinality({i \in 1 .. Len(squares) : squares[i].isCurved}) =
           (props.rows * props.cols * props.curvedPercentage) \div 100

\* a regenerated two-cell layout of which 75 percent, rounded down to one cell,
\* is Rounded
C6_Witness ==
    /\ lifecycle = "regenerate"
    /\ props.rows * props.cols = 2
    /\ props.curvedPercentage = 75
    /\ Cardinality({i \in 1 .. Len(squares) : squares[i].isCurved}) = 1

\* C7: the background layout has backgroundRows*backgroundCols cells with
\* pairwise distinct ids, none of them marked Rounded.
C7_BackgroundLayout ==
    /\ Len(backgroundSquares) = props.backgroundRows * props.backgroundCols
    /\ DistinctIds(backgroundSquares)
    /\ \A i \in 1 .. Len(backgroundSquares) :
         \/ "isCurved" \notin DOMAIN backgroundSquares[i]
         \/ ~backgroundSquares[i].isCurved

\* a regenerated background of two rows and two columns
C7_Witness ==
    /\ lifecycle = "regenerate"
    /\ props.backgroundRows = 2
    /\ props.backgroundCols = 2
    /\ Len(backgroundSquares) = 4

\* C8: generating the layout again with the same rows, cols, curvedPercentage,
\* backgroundRows and backgroundCols (a remount with the same props) yields the
\* same number of cells and the same ids per layer, whatever the draws; a
\* 2 x 2 foreground has the ids fg-0-0, fg-0-1, fg-1-0, fg-1-1.
C8_LayoutIdempotence ==
    [][lifecycle' = "remount" /\ Dims(props') = Dims(props) =>
          /\ Len(squares') = Len(squares)
          /\ IdSet(squares') = IdSet(squares)
          /\ Len(backgroundSquares') = Len(backgroundSquares)
          /\ IdSet(backgroundSquares') = IdSet(backgroundSquares)
          /\ props'.rows = 2 /\ props'.cols = 2 =>
               IdSet(squares') = {"fg-0-0", "fg-0-1", "fg-1-0", "fg-1-1"}]_vars

\* a 2 x 2 foreground generated a second time with the same props
C8_Witness ==
    /\ lifecycle = "remount"
    /\ props.rows = 2
    /\ props.cols = 2
    /\ props.curvedPercentage = 50
    /\ Len(squares) = 4

\* C9: while the component stays mounted with unchanged props, the interval
\* callback of each layer runs infinitely often: re-creating the interval on
\* every change of the active-id set does not postpone the next tick for ever.
C9_LoopLiveness ==
    /\ []<><<FgTick>>_vars
    /\ []<><<BgTick>>_vars

\* both layers have run a round, and in each the next tick is due together
\* with the deactivation callback whose update re-creates the interval
C9_Witness ==
    /\ fgInterval = "due"
    /\ fgTimeouts # <<>>
    /\ Head(fgTimeouts).due
    /\ bgInterval = "due"
    /\ bgTimeouts # <<>>
    /\ Head(bgTimeouts).due

RenderedActive(cells, active) == {i \in 1 .. Len(cells) : cells[i].id \in active}

\* C11: when a prop change alters the dimensions of a grid and the layout is
\* regenerated with the active-id set left as it was, no id of that set is the
\* id of a cell of the new layout, so the new layout has no cell rendered
\* active.
C11_StaleIdsHarmless ==
    /\ [][props' # props /\ <<props'.rows, props'.cols>> # <<props.rows, props.cols>> =>
            /\ activeSquares \cap IdSet(squares') = {}
            /\ RenderedActive(squares', activeSquares') = {}]_vars
    /\ [][/\ props' # props
          /\ <<props'.backgroundRows, props'.backgroundCols>> #
                 <<props.backgroundRows, props.backgroundCols>>
          => /\ activeBackgroundSquares \cap IdSet(backgroundSquares') = {}
             /\ RenderedActive(backgroundSquares', activeBackgroundSquares') = {}]_vars

\* C12: for 0 <= curvedPercentage < 100, with draws that do not avoid a new
\* index for ever, the sampling loop exits and the layout effect produces both
\* grids, the foreground with exactly floor(rows*cols*curvedPercentage/100)
\* distinct curved indices.
C12_LayoutTerminates ==
    (props.curvedPercentage >= 0 /\ props.curvedPercentage < 100) =>
        <>(/\ layoutEffect.pc = "done"
           /\ Len(squares) = props.rows * props.cols
           /\ Len(backgroundSquares) = props.backgroundRows * props.backgroundCols
           /\ Cardinality({i \in 1 .. Len(squares) : squares[i].isCurved}) =
                  (props.rows * props.cols * props.curvedPercentage) \div 100)

\* the loop has collected two of four indices and the grids are built
C12_Witness ==
    /\ layoutEffect.pc = "done"
    /\ props.rows * props.cols = 4
    /\ props.curvedPercentage = 50
    /\ Cardinality({i \in 1 .. Len(squares) : squares[i].isCurved}) = 2

\* the ids of the curved cells of a grid
CurvedIds(cells) == {cells[i].id : i \in {j \in 1 .. Len(cells) : cells[j].isCurved}}

\* C13: an activation round commits its snapshot together with the cells it
\* adds: the added cells are cells of the grid that were not in the snapshot,
\* a foreground round adds at most 3 regular cells and at most 1 curved cell,
\* a background round adds at most 2 cells, and every id of the snapshot is
\* still in the committed set.  (A round is the step that schedules a
\* deactivation callback; the snapshot is the set its callback captured.)
C13_RoundSelection ==
    /\ [][Len(fgTimeouts') > Len(fgTimeouts) =>
            LET round == fgTimeouts'[Len(fgTimeouts')]
                added == activeSquares' \ round.snapshot
            IN  /\ round.snapshot = fgClosure.activeSquares
                /\ round.snapshot \subseteq activeSquares'
                /\ added \subseteq IdSet(Inactive(fgClosure.squares, round.snapshot))
                /\ Cardinality(added \ CurvedIds(fgClosure.squares)) <= 3
                /\ Cardinality(added \cap CurvedIds(fgClosure.squares)) <= 1]_vars
    /\ [][Len(bgTimeouts') > Len(bgTimeouts) =>
            LET round == bgTimeouts'[Len(bgTimeouts')]
                added == activeBackgroundSquares' \ round.snapshot
            IN  /\ round.snapshot = bgClosure.activeBackgroundSquares
                /\ round.snapshot \subseteq activeBackgroundSquares'
                /\ added \subseteq
                       IdSet(Inactive(bgClosure.backgroundSquares, round.snapshot))
                /\ Cardinality(added) <= 2]_vars

\* a foreground round has added three regular cells to a snapshot of one
C13_Witness ==
    /\ fgTimeouts # <<>>
    /\ Cardinality(fgTimeouts[Len(fgTimeouts)].snapshot) = 1
    /\ activeSquares = fgTimeouts[Len(fgTimeouts)].newActiveIds
    /\ Cardinality(activeSquares \ fgTimeouts[Len(fgTimeouts)].snapshot) = 3
    /\ CurvedIds(squares) = {}

\* C14: a background tick whose callback finds every background cell in the
\* active-id set it captured (inactive pool empty) is skipped: the background
\* active-id set stays as it is and no deactivation callback is scheduled.  A
\* foreground tick always commits a set and schedules a deactivation callback.
\* (A tick is the step that takes a due interval back to armed without
\* re-running the effect.)
C14_BackgroundSkip ==
    /\ [][/\ mounted /\ bgInterval = "due" /\ bgInterval' = "armed"
          /\ ~(bgDirty /\ ~bgDirty')
          /\ Inactive(bgClosure.backgroundSquares,
                      bgClosure.activeBackgroundSquares) = <<>>
          => /\ activeBackgroundSquares' = activeBackgroundSquares
             /\ bgTimeouts' = bgTimeouts
             /\ bgDirty' = bgDirty]_vars
    /\ [][/\ mounted /\ fgInterval = "due" /\ fgInterval' = "armed"
          /\ ~(fgDirty /\ ~fgDirty')
          => /\ Len(fgTimeouts') = Len(fgTimeouts) + 1
             /\ activeSquares' = fgTimeouts'[Len(fgTimeouts')].newActiveIds
             /\ fgDirty']_vars

\* the only background cell is lit and was kept by its deactivation callback;
\* the tick of the same period has run and has left no callback pending
C14_Witness ==
    /\ mounted
    /\ lifecycle = "mount"
    /\ bgDirty
    /\ bgInterval = "armed"
    /\ bgTimeouts = <<>>
    /\ backgroundSquares # <<>>
    /\ activeBackgroundSquares = IdSet(backgroundSquares)
    /\ bgClosure.backgroundSquares = backgroundSquares
    /\ bgClosure.activeBackgroundSquares = activeBackgroundSquares

\* C15: a foreground round or deactivation step leaves the background
\* active-id set as it is, a background round or deactivation step leaves the
\* foreground active-id set as it is, and none of them changes a cell
\* descriptor of either grid.
C15_LayerIndependence ==
    /\ [][Len(fgTimeouts') # Len(fgTimeouts) =>
            /\ activeBackgroundSquares' = activeBackgroundSquares
            /\ squares' = squares
            /\ backgroundSquares' = backgroundSquares]_vars
    /\ [][Len(bgTimeouts') # Len(bgTimeouts) =>
            /\ activeSquares' = activeSquares
            /\ squares' = squares
            /\ backgroundSquares' = backgroundSquares]_vars

\* a foreground deactivation step has just removed a cell while a background
\* cell is lit and a background deactivation callback is pending
C15_Witness ==
    /\ removedOld # {}
    /\ removedOld \subseteq IdSet(squares)
    /\ activeBackgroundSquares # {}
    /\ bgTimeouts # <<>>

\* C16: while the component stays mounted, with fair timers and the removal
\* outcome not avoided for ever, every cell that is active is later inactive,
\* in both layers.
C16_NoPermanentlyLitCell ==
    \A id \in CellIds :
        /\ (id \in activeSquares) ~> (id \notin activeSquares)
        /\ (id \in activeBackgroundSquares) ~> (id \notin activeBackgroundSquares)

\* C17: an activation round starts from the active-id set that is current
\* when its tick fires, and the ids that enter the set in a round are ids the
\* round picked from the inactive pool: an id removed by a deactivation step
\* is not written back by a tick whose callback captured an older set.
C17_NoLostDeactivation ==
    /\ [][Len(fgTimeouts') > Len(fgTimeouts) =>
            LET round == fgTimeouts'[Len(fgTimeouts')]
            IN  /\ round.snapshot = activeSquares
                /\ (activeSquares' \ activeSquares) \subseteq
                       (round.newActiveIds \ round.snapshot)]_vars
    /\ [][Len(bgTimeouts') > Len(bgTimeouts) =>
            LET round == bgTimeouts'[Len(bgTimeouts')]
            IN  /\ round.snapshot = activeBackgroundSquares
                /\ (activeBackgroundSquares' \ activeBackgroundSquares) \subseteq
                       (round.newActiveIds \ round.snapshot)]_vars

====
